---- MODULE Spec2Model ----
(***************************************************************************)
(* Model of examples/goproxy-cache/main.go: a caching proxy for docker     *)
(* blobs.  The index `cache` (a Go map guarded by the mutex `m`) tells for *)
(* every blob name whether its file in `cachedir` can be served.           *)
(* CacheReqHandler runs before a request goes upstream, CacheRespHandler   *)
(* on the upstream response; a cacheTeeReader copies the body to the file  *)
(* while the client reads it and marks the blob AVAILABLE when closed.     *)
(*                                                                         *)
(* Every request is handled by its own goroutine: a run of the process     *)
(* gets at most NumProcs requests, at any times.  One step of a goroutine  *)
(* is a maximal piece of code that no other goroutine can observe half     *)
(* done: a system call, or a stretch that ends with an operation on m.     *)
(* Any system call that can return an error may do so, and the process may *)
(* crash at any time; it is then started again.                            *)
(***************************************************************************)
EXTENDS Integers, Sequences, FiniteSets, TLC

\* Bounds of the model.
NumProcs == 2
NumKeys == 1
BlobLen == 2

\* Constants for cache entry status (main.go 20-25).
EMPTY == 0
AVAILABLE == 1
IN_PROGRESS == 2

\* The status CacheRespHandler caches (main.go 200), and the statuses upstream
\* answers with in the model: success, or not found.
StatusOK == 200
Statuses == {StatusOK, 404}

Procs == 1..NumProcs
\* The blob names shouldBeCached can extract from a path.
Keys == 1..NumKeys
\* shouldBeCached returns "" for a path that is not a blob path.
NoKey == 0
\* The value of m when no goroutine holds it.
Free == 0

\* The bytes upstream serves for blob k: blobs are content addressed, so a
\* name has one content.  Different blobs differ, and so do the positions of
\* one blob.
Blob(k) == [i \in 1..BlobLen |-> 10 * k + i]

VARIABLES
  phase,      \* "start": main before cacheInit; "serving"; "fatal": log.Fatal
  dir,        \* cachedir on disk: "absent", "dir", or "notdir" (a plain file)
  store,      \* the files of cachedir: name -> content (a sequence of bytes)
  cache,      \* the map cache: name -> AVAILABLE or IN_PROGRESS; no entry reads EMPTY
  m,          \* the mutex m: Free or the goroutine holding it
  g           \* the goroutines: g[p] is the request p handles and where it is

vars == <<phase, dir, store, cache, m, g>>

\* A goroutine with no request.  Of a request it holds: where it is (pc),
\* shaname, the local in_cache while it is read, whether the call slept in
\* the loop (waited, while CacheReqHandler runs), the branch on which
\* CacheReqHandler returned no response (via), the response (resp, status,
\* clen, and body: the bytes the client has got), and the tee of the response:
\* tee (the file is open), nbread, nbwritten, eof (the body returned io.EOF),
\* and, once the tee is closed, full: the body was read to io.EOF and every
\* byte read was written.
IdleReq ==
  [pc |-> "idle", shaname |-> NoKey, in_cache |-> EMPTY, waited |-> FALSE,
   via |-> "none", status |-> 0, tee |-> FALSE, nbread |-> 0, nbwritten |-> 0,
   eof |-> FALSE, full |-> FALSE, resp |-> "none", clen |-> 0, body |-> <<>>]

\* in_cache := cache[shaname]: a Go map reads the zero value for a missing key.
Lookup(c, k) == IF k \in DOMAIN c THEN c[k] ELSE EMPTY

\* cache[k] = v
Store(c, k, v) == (k :> v) @@ c

\* The empty map / the empty directory.
NoEntries == [k \in {} |-> 0]

\* f.Write(bytes) through a handle whose offset is off: the file is
\* overwritten from off on, and grows when the write ends beyond its end (a
\* gap is read as zeros).
WriteAt(content, off, bytes) ==
  LET newlen == IF off + Len(bytes) > Len(content) THEN off + Len(bytes) ELSE Len(content)
  IN [i \in 1..newlen |->
        IF i > off /\ i <= off + Len(bytes) THEN bytes[i - off]
        ELSE IF i <= Len(content) THEN content[i]
        ELSE 0]

TypeOK ==
  /\ phase \in {"start", "serving", "fatal"}
  /\ dir \in {"absent", "dir", "notdir"}
  /\ DOMAIN store \subseteq Keys
  /\ DOMAIN cache \subseteq Keys
  /\ \A k \in DOMAIN cache : cache[k] \in {AVAILABLE, IN_PROGRESS}
  /\ m \in {Free} \cup Procs
  /\ DOMAIN g = Procs

\* The process is started on a machine where cachedir is absent, is not a
\* directory, or is a directory holding the blobs earlier runs completed.
Init ==
  /\ phase = "start"
  /\ dir \in {"absent", "dir", "notdir"}
  /\ \E S \in SUBSET Keys :
       /\ (dir # "dir") => (S = {})
       /\ store = [k \in S |-> Blob(k)]
  /\ cache = NoEntries
  /\ m = Free
  /\ g = [p \in Procs |-> IdleReq]

----------------------------------------------------------------------------
\* cacheInit (main.go 93-120)

\* ScanIndex of a scan that skips the first file of the directory.
ScanIndexSkipsOne(files) ==
  [k \in {x \in DOMAIN files : \E y \in DOMAIN files : y < x} |-> AVAILABLE]

\* The index after the scan of cachedir: every file name is AVAILABLE.
ScanIndex(files) == [k \in DOMAIN files |-> AVAILABLE]

\* cachedir is a directory: it is scanned.
CacheInitScan ==
  /\ phase = "start"
  /\ dir = "dir"
  /\ cache' = ScanIndex(store)
  /\ phase' = "serving"
  /\ UNCHANGED <<dir, store, m, g>>

\* cachedir is absent: os.Mkdir creates it, and the scan finds nothing.
CacheInitMkdir ==
  /\ phase = "start"
  /\ dir = "absent"
  /\ dir' = "dir"
  /\ cache' = ScanIndex(store)
  /\ phase' = "serving"
  /\ UNCHANGED <<store, m, g>>

\* log.Fatal (103, 113): os.Mkdir fails, as it must when cachedir is a plain
\* file, or ioutil.ReadDir fails.
CacheInitFatal ==
  /\ phase = "start"
  /\ phase' = "fatal"
  /\ UNCHANGED <<dir, store, cache, m, g>>

\* The process dies (a crash, a kill) and is started again: the memory of the
\* process is lost, the files stay as they are.
Restart ==
  /\ phase = "serving"
  /\ phase' = "start"
  /\ cache' = NoEntries
  /\ m' = Free
  /\ g' = [p \in Procs |-> IdleReq]
  /\ UNCHANGED <<dir, store>>

----------------------------------------------------------------------------
\* CacheReqHandler (main.go 144-193)

\* A request arrives; shouldBeCached gives the blob name k, or NoKey.  A path
\* that is no blob path makes the handler return (req, nil) at once.
Arrive(p, k) ==
  /\ phase = "serving"
  /\ g[p].pc = "idle"
  /\ g' = [g EXCEPT ![p] = [IdleReq EXCEPT !.shaname = k,
                              !.pc = IF k = NoKey THEN "upstream" ELSE "req_lock",
                              !.via = IF k = NoKey THEN "nocache" ELSE "none"]]
  /\ UNCHANGED <<phase, dir, store, cache, m>>

\* ReqLock without the mutex: the index is read whoever holds m.
ReqLockUnguarded(p) ==
  /\ phase = "serving"
  /\ g[p].pc \in {"req_lock", "req_sleep"}
  /\ m' = p
  /\ g' = [g EXCEPT ![p].pc = "req_check",
                    ![p].in_cache = Lookup(cache, g[p].shaname)]
  /\ UNCHANGED <<phase, dir, store, cache>>

\* m.Lock(); in_cache := cache[shaname]   (149-150, and 157-158 after a sleep)
ReqLock(p) ==
  /\ phase = "serving"
  /\ g[p].pc \in {"req_lock", "req_sleep"}
  /\ m = Free
  /\ m' = p
  /\ g' = [g EXCEPT ![p].pc = "req_check",
                    ![p].in_cache = Lookup(cache, g[p].shaname)]
  /\ UNCHANGED <<phase, dir, store, cache>>

\* LoopTest of a handler that does not wait for the other download.
LoopTestNever(in_cache) == FALSE

\* The test of the waiting loop (153).
LoopTest(in_cache) == in_cache = IN_PROGRESS

\* MissIndex of a miss branch that forgets to note the download.
MissIndexForgotten(c, k) == c

\* The index after the miss branch (187).
MissIndex(c, k) == Store(c, k, IN_PROGRESS)

\* ReqCheck of a handler that goes to sleep without m.Unlock().
ReqCheckSleepsLocked(p) ==
  /\ phase = "serving"
  /\ g[p].pc = "req_check"
  /\ IF LoopTest(g[p].in_cache)
       THEN /\ g' = [g EXCEPT ![p].pc = "req_sleep", ![p].waited = TRUE,
                              ![p].in_cache = EMPTY]
            /\ UNCHANGED <<cache, m>>
     ELSE IF g[p].in_cache = AVAILABLE
       THEN /\ g' = [g EXCEPT ![p].pc = "req_open", ![p].in_cache = EMPTY]
            /\ m' = Free
            /\ UNCHANGED cache
     ELSE /\ cache' = MissIndex(cache, g[p].shaname)
          /\ m' = Free
          /\ g' = [g EXCEPT ![p].pc = "upstream", ![p].via = "miss",
                            ![p].in_cache = EMPTY]
  /\ UNCHANGED <<phase, dir, store>>

\* Holding m: the loop test (153) and the branches (161, 185), up to
\* m.Unlock().  The local in_cache is not read again after its branch.
ReqCheck(p) ==
  /\ phase = "serving"
  /\ g[p].pc = "req_check"
  /\ m' = Free
  /\ IF LoopTest(g[p].in_cache)
       THEN /\ g' = [g EXCEPT ![p].pc = "req_sleep", ![p].waited = TRUE,
                              ![p].in_cache = EMPTY]
            /\ UNCHANGED cache
     ELSE IF g[p].in_cache = AVAILABLE
       THEN /\ g' = [g EXCEPT ![p].pc = "req_open", ![p].in_cache = EMPTY]
            /\ UNCHANGED cache
     ELSE /\ cache' = MissIndex(cache, g[p].shaname)
          /\ g' = [g EXCEPT ![p].pc = "upstream", ![p].via = "miss",
                            ![p].in_cache = EMPTY]
  /\ UNCHANGED <<phase, dir, store>>

\* os.Open(cachedir + shaname) (165-169): on failure return (req, nil).
ReqOpen(p) ==
  /\ phase = "serving"
  /\ g[p].pc = "req_open"
  /\ \/ /\ g[p].shaname \in DOMAIN store
        /\ g' = [g EXCEPT ![p].pc = "req_stat"]
     \/ g' = [g EXCEPT ![p].pc = "upstream", ![p].via = "fallback",
                       ![p].waited = FALSE]
  /\ UNCHANGED <<phase, dir, store, cache, m>>

\* os.Stat(cachedir + shaname) (170-174) and the response (176-184):
\* ContentLength is the size of the file now.
ReqStat(p) ==
  /\ phase = "serving"
  /\ g[p].pc = "req_stat"
  /\ \/ /\ g' = [g EXCEPT ![p].pc = "hit", ![p].resp = "hit",
                          ![p].status = StatusOK, ![p].waited = FALSE,
                          ![p].clen = Len(store[g[p].shaname])]
     \/ g' = [g EXCEPT ![p].pc = "upstream", ![p].via = "fallback",
                       ![p].waited = FALSE]
  /\ UNCHANGED <<phase, dir, store, cache, m>>

\* The proxy sends the response of the handler to the client: the body
\* ioutil.NopCloser(f) is read to its end.
HitServe(p) ==
  /\ phase = "serving"
  /\ g[p].pc = "hit"
  /\ g' = [g EXCEPT ![p].pc = "done", ![p].body = store[g[p].shaname]]
  /\ UNCHANGED <<phase, dir, store, cache, m>>

----------------------------------------------------------------------------
\* CacheRespHandler (main.go 195-225)

\* RespCaches of a handler that does not look at the status.
RespCachesAnyStatus(st, k) == k # NoKey

\* Whether CacheRespHandler goes on to look at the index (200-204).
RespCaches(st, k) == st = StatusOK /\ k # NoKey

\* The transport fetches the blob; upstream answers with status st, and
\* CacheRespHandler starts: a status other than 200 is returned as it is
\* (200-202), and so is the response of a path that is no blob path (204).
Upstream(p, st) ==
  /\ phase = "serving"
  /\ g[p].pc = "upstream"
  /\ g' = [g EXCEPT ![p].status = st,
                    ![p].resp = "upstream",
                    ![p].pc = IF RespCaches(st, g[p].shaname)
                                THEN "resp_lock" ELSE "deliver"]
  /\ UNCHANGED <<phase, dir, store, cache, m>>

\* m.Lock(); in_cache := cache[shaname]   (205-206)
RespLock(p) ==
  /\ phase = "serving"
  /\ g[p].pc = "resp_lock"
  /\ m = Free
  /\ m' = p
  /\ g' = [g EXCEPT ![p].pc = "resp_unlock",
                    ![p].in_cache = Lookup(cache, g[p].shaname)]
  /\ UNCHANGED <<phase, dir, store, cache>>

\* m.Unlock()   (207)
RespUnlock(p) ==
  /\ phase = "serving"
  /\ g[p].pc = "resp_unlock"
  /\ m' = Free
  /\ g' = [g EXCEPT ![p].pc = "resp_create"]
  /\ UNCHANGED <<phase, dir, store, cache>>

\* WantsTee of a handler that does not look at the index.
WantsTeeAlways(in_cache) == TRUE

\* Whether the response gets a tee (209-211).
WantsTee(in_cache) == in_cache # AVAILABLE

\* 209-221: nothing for an AVAILABLE blob; otherwise newCacheTeeReader
\* (44-65), whose os.Create makes the file empty, and resp.Body = tee on
\* success.  The local in_cache is not read again.
RespCreate(p) ==
  /\ phase = "serving"
  /\ g[p].pc = "resp_create"
  /\ IF ~WantsTee(g[p].in_cache)
       THEN /\ g' = [g EXCEPT ![p].pc = "deliver", ![p].in_cache = EMPTY]
            /\ UNCHANGED store
       ELSE \/ /\ store' = Store(store, g[p].shaname, <<>>)
               /\ g' = [g EXCEPT ![p].pc = "deliver", ![p].in_cache = EMPTY,
                                 ![p].tee = TRUE]
            \/ /\ g' = [g EXCEPT ![p].pc = "deliver", ![p].in_cache = EMPTY]
               /\ UNCHANGED store
  /\ UNCHANGED <<phase, dir, cache, m>>

\* The response has the body of upstream itself: the proxy copies it to the
\* client and closes it.
PassThrough(p) ==
  /\ phase = "serving"
  /\ g[p].pc = "deliver"
  /\ ~g[p].tee
  /\ g' = [g EXCEPT ![p].pc = "done",
                    ![p].body = IF g[p].status = StatusOK
                                  THEN Blob(g[p].shaname) ELSE <<>>]
  /\ UNCHANGED <<phase, dir, store, cache, m>>

----------------------------------------------------------------------------
\* cacheTeeReader (main.go 34-91)

\* TeeForward of a Read that gives its caller one byte less than the body gave.
TeeForwardDropsLast(bytes) == SubSeq(bytes, 1, Len(bytes) - 1)

\* What one Read of the tee gives its caller, the body having given the
\* bytes `bytes` (69-80): the same bytes.
TeeForward(bytes) == bytes

\* TeeWrite of a Read that writes its whole buffer p, not p[:nread]: the
\* buffer holds one more byte than the body gave.
TeeWriteWholeBuffer(content, off, bytes, nbytes) == WriteAt(content, off, bytes \o <<0>>)

\* The file after the tee wrote the first nbytes of `bytes` at its offset (72).
TeeWrite(content, off, bytes, nbytes) == WriteAt(content, off, SubSeq(bytes, 1, nbytes))

\* tee.Read (67-81) before the end of the body: the body gives the next n
\* bytes of the blob, the file takes nbytes of them (all n, unless the write
\* fails), and the caller gets what the body gave.
TeeRead(p, n, nbytes) ==
  /\ phase = "serving"
  /\ g[p].pc = "deliver"
  /\ g[p].tee
  /\ n <= Len(Blob(g[p].shaname)) - g[p].nbread
  /\ nbytes <= n
  /\ LET k == g[p].shaname
         bytes == SubSeq(Blob(k), g[p].nbread + 1, g[p].nbread + n)
     IN /\ store' = Store(store, k, TeeWrite(store[k], g[p].nbwritten, bytes, nbytes))
        /\ g' = [g EXCEPT ![p].nbread = @ + n,
                          ![p].nbwritten = @ + nbytes,
                          ![p].body = @ \o TeeForward(bytes)]
  /\ UNCHANGED <<phase, dir, cache, m>>

\* tee.Read (67-81) at the end of the body: the body gives no byte and
\* io.EOF, nothing is written, and the caller gets 0 and io.EOF.
TeeReadEOF(p) ==
  /\ phase = "serving"
  /\ g[p].pc = "deliver"
  /\ g[p].tee
  /\ ~g[p].eof
  /\ g[p].nbread = Len(Blob(g[p].shaname))
  /\ g' = [g EXCEPT ![p].eof = TRUE]
  /\ UNCHANGED <<phase, dir, store, cache, m>>

\* TeeClose of a Close that goes on to the index with the file still open.
TeeCloseKeepsFile(p) ==
  /\ phase = "serving"
  /\ g[p].pc = "deliver"
  /\ g[p].tee
  /\ g' = [g EXCEPT ![p].pc = "close_lock",
                    ![p].full = g[p].eof /\ g[p].nbwritten = g[p].nbread]
  /\ UNCHANGED <<phase, dir, store, cache, m>>

\* tee.Close, first part (84-85): the counters are logged, not to be read
\* again, and tee.f.Close().  The proxy closes the body when the client has
\* it all, and also when the client or upstream went away before the end.
TeeClose(p) ==
  /\ phase = "serving"
  /\ g[p].pc = "deliver"
  /\ g[p].tee
  /\ g' = [g EXCEPT ![p].pc = "close_lock", ![p].tee = FALSE,
                    ![p].full = g[p].eof /\ g[p].nbwritten = g[p].nbread,
                    ![p].nbread = 0, ![p].nbwritten = 0, ![p].eof = FALSE]
  /\ UNCHANGED <<phase, dir, store, cache, m>>

\* CloseIndex of a Close that releases a blob it finds AVAILABLE already.
CloseIndexToggle(c, k) ==
  IF Lookup(c, k) = AVAILABLE THEN [x \in DOMAIN c \ {k} |-> c[x]] ELSE Store(c, k, AVAILABLE)

\* CloseIndex of a Close that deletes the entry of the blob.
CloseIndexDeleted(c, k) == [x \in DOMAIN c \ {k} |-> c[x]]

\* The index after Close (87).
CloseIndex(c, k) == Store(c, k, AVAILABLE)

\* tee.Close, second part (86-87): m.Lock(); cache[tee.shaname] = AVAILABLE
CloseMark(p) ==
  /\ phase = "serving"
  /\ g[p].pc = "close_lock"
  /\ m = Free
  /\ m' = p
  /\ cache' = CloseIndex(cache, g[p].shaname)
  /\ g' = [g EXCEPT ![p].pc = "close_ret"]
  /\ UNCHANGED <<phase, dir, store>>

\* CloseReturn of a Close that returns without the deferred m.Unlock().
CloseReturnKeepsLock(p) ==
  /\ phase = "serving"
  /\ g[p].pc = "close_ret"
  /\ g' = [g EXCEPT ![p].pc = "done"]
  /\ UNCHANGED <<phase, dir, store, cache, m>>

\* tee.Close returns (88-90): the deferred m.Unlock() runs.
CloseReturn(p) ==
  /\ phase = "serving"
  /\ g[p].pc = "close_ret"
  /\ m' = Free
  /\ g' = [g EXCEPT ![p].pc = "done"]
  /\ UNCHANGED <<phase, dir, store, cache>>

----------------------------------------------------------------------------
\* The steps of goroutine p that handle its request.
Handle(p) ==
  \/ ReqLock(p)
  \/ ReqCheck(p)
  \/ ReqOpen(p)
  \/ ReqStat(p)
  \/ HitServe(p)
  \/ \E st \in Statuses : Upstream(p, st)
  \/ RespLock(p)
  \/ RespUnlock(p)
  \/ RespCreate(p)
  \/ PassThrough(p)
  \/ \E n \in 1..BlobLen : \E nbytes \in 0..n : TeeRead(p, n, nbytes)
  \/ TeeReadEOF(p)
  \/ TeeClose(p)
  \/ CloseMark(p)
  \/ CloseReturn(p)

Next ==
  \/ CacheInitScan
  \/ CacheInitMkdir
  \/ CacheInitFatal
  \/ Restart
  \/ \E p \in Procs : \E k \in Keys \cup {NoKey} : Arrive(p, k)
  \/ \E p \in Procs : Handle(p)

Spec == Init /\ [][Next]_vars

\* The scheduler of Go runs every goroutine that can take a step: while
\* goroutine p can go on handling its request, it eventually does.  New
\* requests and restarts may or may not come.
FairSpec == Spec /\ \A p \in Procs : WF_vars(Handle(p))

----------------------------------------------------------------------------
\* Properties

\* The blob name of the request of p.
KeyOf(p) == g[p].shaname

\* p is in the waiting loop of CacheReqHandler (153-159).
InLoop(p) == g[p].pc = "req_sleep" \/ (g[p].pc = "req_check" /\ g[p].waited)

\* p is in CacheReqHandler and has not chosen its branch yet.
Undecided(p) == g[p].pc \in {"idle", "req_lock", "req_check", "req_sleep"}

\* CacheReqHandler of p found its blob AVAILABLE (161).
SawAvailable(p) == ~Undecided(p) /\ g[p].via \in {"none", "fallback"}

\* The calls of CacheReqHandler for blob k in this run that returned no
\* response, by the branches named: "miss" (185-189), "fallback" (168, 173).
Forwarded(k, branches) == {p \in Procs : KeyOf(p) = k /\ g[p].via \in branches}

\* C1 as stated: for every blob, at most one call of CacheReqHandler in a run
\* returns without a final response, that is, lets its request go upstream.
C1_AtMostOneForwarded ==
  \A k \in Keys : Cardinality(Forwarded(k, {"miss", "fallback"})) <= 1

\* C1, amended: for every blob, at most one call of CacheReqHandler in a run
\* takes the miss branch; every other call that returns without a final
\* response found the blob AVAILABLE and could not open or stat its file.
C1_AtMostOneMiss ==
  /\ \A k \in Keys : Cardinality(Forwarded(k, {"miss"})) <= 1
  /\ \A p \in Procs : (g[p].via = "fallback") =>
        Lookup(cache, KeyOf(p)) = AVAILABLE

\* C1, witness: two requests for one blob, the second arriving while the
\* first was being fetched: one went upstream, the other waited and is now
\* about to serve the file.
C1_Witness ==
  \E p, q \in Procs :
    /\ p # q /\ KeyOf(p) = KeyOf(q)
    /\ g[q].via = "miss" /\ g[q].pc = "done"
    /\ g[p].waited /\ g[p].pc = "req_open"
    /\ Forwarded(KeyOf(p), {"miss", "fallback"}) = {q}

\* C2 as stated: no partial file is ever served: the body of every cache-hit
\* response is the complete byte stream of upstream for the blob.
C2_NoPartialServed ==
  \A p \in Procs : (g[p].resp = "hit" /\ g[p].pc = "done") =>
      g[p].body = Blob(KeyOf(p))

\* C3: a call that finds its blob IN_PROGRESS goes to sleep without changing
\* the index; a call that has waited leaves the loop only for the AVAILABLE
\* branch, the index then holding AVAILABLE for its blob; it never takes the
\* miss branch, and while the index holds IN_PROGRESS it stays in the loop.
C3_WaiterStep(p) ==
  /\ (g[p].pc = "req_check" /\ Lookup(cache, KeyOf(p)) = IN_PROGRESS /\ g'[p] # g[p])
        => (g'[p].pc = "req_sleep" /\ g'[p].resp = "none" /\ cache' = cache)
  /\ (g[p].waited /\ InLoop(p) /\ g'[p].pc \notin {"req_check", "req_sleep"})
        => /\ g'[p].pc = "req_open"
           /\ Lookup(cache, KeyOf(p)) = AVAILABLE
           /\ cache' = cache
  /\ (g[p].waited \/ g'[p].waited) => (g'[p].via # "miss")
  /\ (g'[p].waited /\ Lookup(cache', g'[p].shaname) = IN_PROGRESS)
        => (g'[p].pc \in {"req_check", "req_sleep"})

C4_MissStep(p) ==
  (g[p].pc = "req_check" /\ Lookup(cache, KeyOf(p)) = EMPTY /\ g'[p] # g[p])
     => /\ g'[p].pc = "upstream"
        /\ g'[p].resp = "none"
        /\ Lookup(cache', KeyOf(p)) = IN_PROGRESS
        /\ m' = Free

C4_FirstCallFetches ==
  [][(phase = "serving" /\ phase' = "serving") => \A p \in Procs : C4_MissStep(p)]_vars

\* C4, witness: the first call for a blob is on its way upstream, the blob IN_PROGRESS.
C4_Witness ==
  \E p \in Procs :
    /\ g[p].pc = "upstream" /\ g[p].via = "miss"
    /\ Lookup(cache, KeyOf(p)) = IN_PROGRESS
    /\ KeyOf(p) \notin DOMAIN store

\* What a short-circuited call returns: Content-Length is the size of the
\* file, and the body read by the client is the content of the file.
HitMatchesFile(p) ==
  /\ g[p].pc \in {"hit", "done"} => (g[p].resp = "hit" /\ g[p].clen = Len(store[KeyOf(p)]))
  /\ g[p].pc = "done" => g[p].body = store[KeyOf(p)]

\* C5 as stated: every call that finds its blob AVAILABLE short-circuits with
\* a response that matches the file, and is not forwarded to upstream.
C5_AvailableShortCircuits ==
  \A p \in Procs : SawAvailable(p) => (g[p].via = "none" /\ HitMatchesFile(p))

\* C5, amended: a call that finds its blob AVAILABLE short-circuits with a
\* response that matches the file and is not forwarded, unless os.Open or
\* os.Stat of the file fails: then it returns no response and is forwarded.
C5_AvailableShortCircuitsUnlessIOFails ==
  \A p \in Procs : SawAvailable(p) =>
     IF g[p].via = "fallback"
       THEN g[p].resp # "hit"
       ELSE HitMatchesFile(p)

\* C5, witness: a blob that was AVAILABLE was served from its file.
C5_Witness ==
  \E p \in Procs :
    /\ g[p].pc = "done" /\ g[p].resp = "hit"
    /\ g[p].clen = Len(Blob(KeyOf(p))) /\ g[p].body = Blob(KeyOf(p))

\* C6: while the process serves, no step takes a blob from IN_PROGRESS or
\* AVAILABLE back to EMPTY, or from AVAILABLE to another state.
C6_Forward(k) ==
  /\ (Lookup(cache, k) # EMPTY) => (Lookup(cache', k) # EMPTY)
  /\ (Lookup(cache, k) = AVAILABLE) => (Lookup(cache', k) = AVAILABLE)

C6_StateMovesForward ==
  [][(phase = "serving" /\ phase' = "serving") => \A k \in Keys : C6_Forward(k)]_vars

\* C6, witness: a blob went from EMPTY through IN_PROGRESS to AVAILABLE, the
\* Close that made it AVAILABLE still holds m, and another call for the blob
\* sleeps in the loop.
C6_Witness ==
  \E p, q \in Procs :
    /\ g[p].pc = "close_ret" /\ g[p].via = "miss" /\ m = p
    /\ Lookup(cache, KeyOf(p)) = AVAILABLE
    /\ KeyOf(q) = KeyOf(p) /\ g[q].pc = "req_sleep"

\* The call that took the miss branch for blob k has finished: its response
\* went through CacheRespHandler and its body was consumed and closed.
OwnerDone(k) == \E q \in Procs : KeyOf(q) = k /\ g[q].via = "miss" /\ g[q].pc = "done"

\* C7 as stated: once the owning fetch of a blob is complete, every call
\* that waits in the polling loop for the blob eventually leaves the loop.
C7_NoStarvation ==
  \A p \in Procs : (InLoop(p) /\ OwnerDone(KeyOf(p))) ~> ~InLoop(p)

\* q fetched its blob through a tee in a full successful stream: it read to
\* the end of the body, every write took all the bytes, and Close returned.
FullStream(q) == g[q].via = "miss" /\ g[q].pc = "done" /\ g[q].full

\* C8: after a full successful stream through a tee, a later cache-hit
\* response for the same blob carries the bytes of upstream, in order, and
\* their number as Content-Length; so did the stream of the tee itself.
C8_RoundTrip ==
  \A q \in Procs : FullStream(q) =>
     /\ g[q].body = Blob(KeyOf(q))
     /\ store[KeyOf(q)] = Blob(KeyOf(q))
     /\ \A p \in Procs :
          (KeyOf(p) = KeyOf(q) /\ g[p].resp = "hit") =>
             /\ g[p].clen = Len(Blob(KeyOf(q)))
             /\ g[p].pc = "done" => g[p].body = Blob(KeyOf(q))

\* C8, witness: a blob went through a tee in two reads and was then served from the file.
C8_Witness ==
  \E p, q \in Procs :
    /\ FullStream(q) /\ KeyOf(p) = KeyOf(q)
    /\ g[p].resp = "hit" /\ g[p].pc = "done" /\ Len(g[p].body) > 1

\* C9: CacheRespHandler returns a response whose status is not 200, for a
\* blob path, as it is: the step changes neither the files nor the index and
\* attaches no tee; and as long as the request lasts, the blob of a call that
\* took the miss branch has no file and stays IN_PROGRESS.
C9_NonSuccessStep(p) ==
  /\ (g[p].pc = "upstream" /\ g'[p].pc # "upstream" /\ g'[p].status # StatusOK)
        => (g'[p].pc = "deliver" /\ store' = store /\ cache' = cache)
  /\ (g'[p].resp = "upstream" /\ g'[p].status # StatusOK)
        => /\ ~g'[p].tee
           /\ g'[p].pc \in {"deliver", "done"}
           /\ (g'[p].via = "miss") =>
                 /\ Lookup(cache', g'[p].shaname) = IN_PROGRESS
                 /\ g'[p].shaname \notin DOMAIN store'
           /\ (g'[p].via = "fallback") => (Lookup(cache', g'[p].shaname) = AVAILABLE)

C9_NonSuccessNeverCached ==
  [][(phase = "serving" /\ phase' = "serving") =>
        \A p \in Procs : (KeyOf(p) # NoKey) => C9_NonSuccessStep(p)]_vars

\* C9, witness: the fetch of a new blob ended with status 404 and is over.
C9_Witness ==
  \E p \in Procs :
    /\ g[p].via = "miss" /\ g[p].status = 404 /\ g[p].pc = "done"
    /\ Lookup(cache, KeyOf(p)) = IN_PROGRESS

\* C10: the step of cacheInit leaves an index that maps exactly the names of
\* the files of cachedir, each to AVAILABLE; an absent cachedir is created,
\* and the index is then empty.
C10_StartupScan ==
  [][(phase = "start" /\ phase' = "serving") =>
        /\ DOMAIN cache' = DOMAIN store
        /\ store' = store
        /\ \A k \in DOMAIN cache' : cache'[k] = AVAILABLE
        /\ dir' = "dir"
        /\ (dir = "absent") => (DOMAIN cache' = {})]_vars

\* C10, witness: the scan after a restart indexed the file that an
\* unfinished fetch of the run before had left.
C10_Witness ==
  /\ phase = "serving"
  /\ \E k \in DOMAIN cache : g = [p \in Procs |-> IdleReq] /\ store[k] # Blob(k)

Writers(k) == {p \in Procs : KeyOf(p) = k /\ g[p].tee}

\* The calls whose response got a cacheTeeReader: it is open, or in Close.
GotWriter(p) == g[p].tee \/ g[p].pc \in {"close_lock", "close_ret"}

\* C12: after every step, for every blob at most one cacheTeeReader has the
\* file open, the blob is then IN_PROGRESS, and the file holds what that
\* writer wrote, no more and no less; a response has a writer only if its
\* call found the blob EMPTY and took the miss branch, and there is one such
\* call.  The step in which a response gets its writer is made while no
\* writer has the file of the blob open, and os.Create finds no file to empty.
C12_WriterStep(p) ==
  LET k == KeyOf(p)
  IN /\ GotWriter(p)' =>
          /\ g'[p].via = "miss"
          /\ \A q \in Procs \ {p} : (g'[q].shaname = k) => (g'[q].via # "miss")
     /\ g'[p].tee =>
          /\ \A q \in Procs \ {p} : (g'[q].shaname = k) => ~g'[q].tee
          /\ k \in DOMAIN store'
          /\ Len(store'[k]) = g'[p].nbwritten
          /\ Lookup(cache', k) = IN_PROGRESS
     /\ (~g[p].tee /\ g'[p].tee) =>
          /\ Writers(k) = {}
          /\ k \notin DOMAIN store
          /\ store'[k] = <<>>

C12_SingleWriter ==
  [][\A p \in Procs : C12_WriterStep(p)]_vars

\* C12, witness: a writer has its file open and has written to it, while a
\* second call for the blob is in the waiting loop.
C12_Witness ==
  \E p, q \in Procs :
    /\ p # q /\ KeyOf(q) = KeyOf(p)
    /\ g[p].tee /\ g[p].nbwritten > 0
    /\ g[q].pc = "req_sleep"

\* C13: Close closes the file and leaves the index alone, then sets the blob
\* AVAILABLE, then returns; a blob becomes AVAILABLE in a serving process only
\* by that step of the one Close of its fetch, which finds it IN_PROGRESS and
\* the file closed; and no blob is AVAILABLE while a writer has its file open.
C13_CloseStep(p) ==
  /\ (g[p].pc = "deliver" /\ g'[p].pc = "close_lock")
        => (g[p].tee /\ ~g'[p].tee /\ cache' = cache)
  /\ (g[p].pc = "close_lock" /\ g'[p].pc # "close_lock")
        => /\ g'[p].pc = "close_ret"
           /\ ~g[p].tee
           /\ Lookup(cache, KeyOf(p)) = IN_PROGRESS
           /\ cache' = CloseIndex(cache, KeyOf(p))
  /\ (g[p].pc = "close_ret" /\ g'[p] # g[p])
        => (g'[p].pc = "done" /\ cache' = cache)
  /\ (g[p].pc = "done") => (g'[p].pc = "done")

C13_CloseOrdering ==
  [][/\ (phase = "serving" /\ phase' = "serving") =>
          /\ \A p \in Procs : C13_CloseStep(p)
          /\ \A k \in Keys :
               (Lookup(cache, k) # AVAILABLE /\ Lookup(cache', k) = AVAILABLE) =>
                  Cardinality({p \in Procs : /\ KeyOf(p) = k
                                             /\ g[p].pc = "close_lock"
                                             /\ g'[p].pc = "close_ret"}) = 1
     /\ \A k \in Keys :
          (Lookup(cache', k) = AVAILABLE) =>
             ~ \E p \in Procs : g'[p].shaname = k /\ g'[p].tee]_vars

\* C13, witness: Close has closed the file of a fetch that another call waits
\* for, and has not set the blob AVAILABLE yet.
C13_Witness ==
  \E p, q \in Procs :
    /\ g[p].pc = "close_lock" /\ ~g[p].tee
    /\ Lookup(cache, KeyOf(p)) = IN_PROGRESS
    /\ KeyOf(q) = KeyOf(p) /\ g[q].pc = "req_check" /\ g[q].waited

\* The next n bytes the body of upstream gives the call p.
BodyBytes(p, n) == SubSeq(Blob(KeyOf(p)), g[p].nbread + 1, g[p].nbread + n)

\* C14: a Read of the tee that gets n > 0 bytes from the body gives its caller
\* those n bytes, whatever the write to the file did, and appends to the file
\* the bytes the write took, a prefix of them: all n unless the write failed;
\* a Read that gets io.EOF and no byte gives its caller that, and leaves the
\* file alone.  No Read touches the index.
C14_ReadStep(p) ==
  LET k == KeyOf(p)
      n == g'[p].nbread - g[p].nbread
      w == g'[p].nbwritten - g[p].nbwritten
  IN /\ (g[p].tee /\ g'[p].tee /\ n > 0) =>
          /\ g'[p].body = g[p].body \o BodyBytes(p, n)
          /\ g'[p].eof = g[p].eof
          /\ w \in 0..n
          /\ store'[k] = store[k] \o SubSeq(BodyBytes(p, n), 1, w)
          /\ cache' = cache
     /\ (g[p].tee /\ g'[p].tee /\ n = 0 /\ g'[p] # g[p]) =>
          /\ g'[p].eof /\ ~g[p].eof
          /\ g'[p].body = g[p].body /\ g[p].body = Blob(k)
          /\ w = 0
          /\ store' = store /\ cache' = cache

C14_ReadContract ==
  [][(phase = "serving" /\ phase' = "serving") => \A p \in Procs : C14_ReadStep(p)]_vars

\* C14, witness: a write of the tee failed, and the client has all the bytes
\* of the blob and io.EOF all the same.
C14_Witness ==
  \E p \in Procs :
    /\ g[p].tee /\ g[p].eof
    /\ g[p].body = Blob(KeyOf(p))
    /\ g[p].nbwritten < g[p].nbread
    /\ store[KeyOf(p)] # <<>>

\* newCacheTeeReader failed for the response of p (216-220): p took the miss
\* branch and got status 200, and its response is delivered, or was, with no
\* writer; a response that had a writer leaves its blob AVAILABLE.
Degraded(p) ==
  /\ g[p].via = "miss" /\ g[p].status = StatusOK /\ g[p].resp = "upstream"
  /\ \/ g[p].pc = "deliver" /\ ~g[p].tee
     \/ g[p].pc = "done" /\ Lookup(cache, KeyOf(p)) = IN_PROGRESS

\* C15: when os.Create fails in CacheRespHandler, the step changes neither
\* the index nor the files; the client gets the body of upstream itself; and
\* as long as the process runs the blob stays IN_PROGRESS and without a file,
\* and every other call for it is in CacheReqHandler before or in the waiting
\* loop, with no response, and once in the loop stays there.
C15_DegradedStep(p) ==
  LET k == KeyOf(p)
  IN /\ (g[p].pc = "resp_create" /\ g[p].via = "miss" /\ g'[p].pc = "deliver" /\ ~g'[p].tee)
          => (store' = store /\ cache' = cache)
     /\ (g'[p].pc = "deliver" /\ g'[p].via = "miss" /\ g'[p].status = StatusOK /\ ~g'[p].tee)
          => Lookup(cache', k) = IN_PROGRESS
     /\ Degraded(p) =>
          /\ Degraded(p)'
          /\ Lookup(cache', k) = IN_PROGRESS
          /\ k \notin DOMAIN store'
          /\ (g'[p].pc = "done") => (g'[p].body = Blob(k))
          /\ \A q \in Procs \ {p} :
               (g'[q].shaname = k) =>
                  /\ g'[q].pc \in {"req_lock", "req_check", "req_sleep"}
                  /\ g'[q].resp = "none"
                  /\ InLoop(q) => InLoop(q)'

C15_DegradedMode ==
  [][(phase = "serving" /\ phase' = "serving") => \A p \in Procs : C15_DegradedStep(p)]_vars

\* C15, witness: the fetch whose os.Create failed is over, the client has the
\* blob, and another call for the blob has slept and found it IN_PROGRESS again.
C15_Witness ==
  \E p, q \in Procs :
    /\ Degraded(p) /\ g[p].pc = "done" /\ g[p].body = Blob(KeyOf(p))
    /\ KeyOf(q) = KeyOf(p) /\ g[q].pc = "req_check" /\ g[q].waited
    /\ g[q].in_cache = IN_PROGRESS

\* C16: a call that finds its blob AVAILABLE and cannot open or stat the
\* file returns from CacheReqHandler with no response, changing neither the
\* index nor the files: its request goes upstream, and the client gets the
\* response of upstream, not an error or an empty body made by the handler.
\* CacheRespHandler then reads AVAILABLE for the blob and returns the
\* response with no writer, again changing neither index nor files, and the
\* blob stays AVAILABLE.
C16_FallbackStep(p) ==
  /\ (g[p].pc \in {"req_open", "req_stat"} /\ g'[p].pc \notin {"req_open", "req_stat", "hit"})
        => /\ g'[p].pc = "upstream" /\ g'[p].via = "fallback" /\ g'[p].resp = "none"
           /\ store' = store /\ cache' = cache /\ m' = m
  /\ (g'[p].via = "fallback") =>
        /\ g'[p].pc \in {"upstream", "resp_lock", "resp_unlock", "resp_create", "deliver", "done"}
        /\ g'[p].resp \in {"none", "upstream"}
        /\ (g'[p].pc = "upstream") <=> (g'[p].resp = "none")
        /\ ~GotWriter(p)'
        /\ Lookup(cache', g'[p].shaname) = AVAILABLE
        /\ (g'[p].pc \in {"resp_unlock", "resp_create"}) => (g'[p].in_cache = AVAILABLE)
        /\ (g'[p].pc = "done") =>
              (g'[p].body = IF g'[p].status = StatusOK THEN Blob(g'[p].shaname) ELSE <<>>)
  /\ (g[p].via = "fallback" /\ g'[p] # g[p]) => (store' = store /\ cache' = cache)

C16_FallbackUncached ==
  [][(phase = "serving" /\ phase' = "serving") => \A p \in Procs : C16_FallbackStep(p)]_vars

\* C16, witness: the file of an AVAILABLE blob could not be opened or stat'd,
\* the blob was fetched from upstream again and given to the client, and the
\* file is the one that was there before.
C16_Witness ==
  \E p \in Procs :
    /\ g[p].via = "fallback" /\ g[p].pc = "done"
    /\ g[p].status = StatusOK /\ g[p].body = Blob(KeyOf(p))
    /\ Lookup(cache, KeyOf(p)) = AVAILABLE
    /\ KeyOf(p) \in DOMAIN store /\ store[KeyOf(p)] # Blob(KeyOf(p))

\* The places where a goroutine is between m.Lock() and m.Unlock(): after
\* 149-150 or 157-158, after 205-206, after 86-87.
CriticalSections == {"req_check", "resp_unlock", "close_ret"}

\* C17: m is held by a goroutine exactly while it is in a critical section,
\* so not while it sleeps (156), opens or stats (165, 170), creates (56),
\* reads and writes (69-72) or closes (85) a file; every step that reads the
\* index into in_cache takes m first, and every step that changes the index
\* is made by the holder of m; a waiter gives m up when it goes to sleep and
\* takes it again, reading the index anew, when it wakes up; so when a Close
\* wants m, m is free or held by a goroutine that is not asleep and gives it
\* up with its next step.
C17_LockStep(p) ==
  /\ (g'[p].pc \in {"req_check", "resp_unlock"} /\ g'[p] # g[p])
        => /\ m = Free /\ m' = p
           /\ g'[p].in_cache = Lookup(cache, KeyOf(p))
           /\ cache' = cache
  /\ (g[p].pc = "req_check" /\ g'[p].pc = "req_sleep") => (m = p /\ m' = Free)
  /\ (g[p].pc = "req_sleep" /\ g'[p] # g[p]) => (g'[p].pc = "req_check")
  /\ (g'[p] # g[p] /\ cache' # cache) => (m = p \/ m' = p)
  /\ (g'[p] # g[p] /\ store' # store) => (m # p /\ m' # p)

C17_LockDiscipline ==
  [][(phase = "serving" /\ phase' = "serving") =>
        /\ \A p \in Procs : C17_LockStep(p)
        /\ (cache' # cache) => \E p \in Procs : g'[p] # g[p]
        /\ \A p \in Procs : (m' = p) <=> (g'[p].pc \in CriticalSections)
        /\ \A p \in Procs : (g'[p].pc = "close_lock" /\ m' # Free) =>
              /\ m' # p
              /\ \E q \in Procs : m' = q /\ g'[q].pc \in CriticalSections]_vars

\* C17, witness: a waiter sleeps without m, and the Close of the fetch it
\* waits for has taken m and set the blob AVAILABLE.
C17_Witness ==
  \E p, q \in Procs :
    /\ KeyOf(q) = KeyOf(p) /\ g[q].pc = "req_sleep" /\ g[q].waited
    /\ g[p].pc = "close_ret" /\ m = p /\ g[p].full

\* Two first calls for a brand-new blob are pending together: both are about
\* to take m in CacheReqHandler, and the blob has no entry and no file.
TwoFirstCallers(p, q) ==
  /\ p # q /\ KeyOf(p) = KeyOf(q) /\ KeyOf(p) # NoKey
  /\ g[p].pc = "req_lock" /\ g[q].pc = "req_lock"
  /\ Lookup(cache, KeyOf(p)) = EMPTY
  /\ KeyOf(p) \notin DOMAIN store

FileOf(files, k) == IF k \in DOMAIN files THEN <<"file", files[k]>> ELSE <<"none">>

\* C19: no step, a restart included, creates, empties, appends to or
\* otherwise changes the file of a blob that is AVAILABLE; and a call that is
\* between the index read (206) and os.Create (56) in CacheRespHandler has
\* read AVAILABLE if and only if the blob is AVAILABLE now, and then its
\* response gets no writer and the step changes no file.
C19_ImmutableStep(k) ==
  /\ (Lookup(cache, k) = AVAILABLE) => (FileOf(store', k) = FileOf(store, k))
  /\ \A p \in Procs :
       (KeyOf(p) = k /\ g[p].pc = "resp_create" /\ phase' = "serving") =>
          /\ (g[p].in_cache = AVAILABLE) <=> (Lookup(cache, k) = AVAILABLE)
          /\ (g[p].in_cache = AVAILABLE /\ g'[p] # g[p]) =>
                (g'[p].pc = "deliver" /\ ~g'[p].tee /\ store' = store)

C19_BlobImmutable ==
  [][\A k \in Keys : C19_ImmutableStep(k)]_vars

\* C19, witness: a blob that is AVAILABLE with its complete file was fetched
\* again, CacheRespHandler has returned the response without a writer, and
\* the file is as it was.
C19_Witness ==
  \E p \in Procs :
    /\ g[p].via = "fallback" /\ g[p].pc = "deliver"
    /\ g[p].status = StatusOK /\ ~g[p].tee
    /\ Lookup(cache, KeyOf(p)) = AVAILABLE
    /\ KeyOf(p) \in DOMAIN store /\ store[KeyOf(p)] = Blob(KeyOf(p))

\* The places where a goroutine waits for m: before m.Lock() of 149, 157, 205, 86.
WantsM(p) == g[p].pc \in {"req_lock", "req_sleep", "resp_lock", "close_lock"}

\* The places where a goroutine is in none of CacheReqHandler,
\* CacheRespHandler and Close: no request yet, or a handler has returned.
Returned(p) == g[p].pc \in {"idle", "upstream", "hit", "deliver", "done"}

\* A step that takes m or gives it up.
LockStepOf(q) ==
  ReqLock(q) \/ RespLock(q) \/ CloseMark(q) \/ ReqCheck(q) \/ RespUnlock(q) \/ CloseReturn(q)

\* C20: a goroutine whose handler or Close has returned does not hold m, on
\* whatever branch it returned, and neither does one at a system call of a
\* handler; when a goroutine wants m and none is in a critical section, m is
\* free; and whenever a goroutine wants m, some goroutine can take m or give
\* it up with its next step, which the scheduler lets it take: nobody waits
\* for m for ever.
C20_MutexReleased ==
  /\ \A p \in Procs : Returned(p) => (m # p)
  /\ \A p \in Procs : (g[p].pc \in {"req_open", "req_stat", "resp_create"}) => (m # p)
  /\ ((\E p \in Procs : WantsM(p)) /\ (\A q \in Procs : g[q].pc \notin CriticalSections))
        => (m = Free)
  /\ (phase = "serving" /\ \E p \in Procs : WantsM(p))
        => \E q \in Procs : ENABLED LockStepOf(q)

\* C20, witness: one call has returned on the miss branch and its Close has
\* returned, another has returned on the failure branch of os.Open or
\* os.Stat; m is free, and CacheRespHandler of the second wants it.
C20_Witness ==
  \E p, q \in Procs :
    /\ g[p].via = "miss" /\ g[p].pc = "done"
    /\ g[q].via = "fallback" /\ g[q].pc = "resp_lock"
    /\ KeyOf(q) = KeyOf(p)
    /\ m = Free

====
